---- MODULE Spec2Model ----
(***************************************************************************)
(* Model of tools/job_queue.py: the JobQueue (Local mode: in-process dict  *)
(* guarded by a lock plus a ThreadPoolExecutor; Distributed mode: Redis    *)
(* hashes plus an rq queue consumed by run_job_wrapper), its callers, its  *)
(* workers and its cleanup thread.                                          *)
(***************************************************************************)
EXTENDS Integers, Sequences, FiniteSets, TLC

\* ------------------------------------------------------------------ bounds
MaxJobs == 2            \* create_job calls in one run
MaxSubmits == 2         \* submit calls in one run
\* a run that fills the pool before two more jobs queue up needs more calls
MaxJobsFifo == MaxJobs + 1
MaxSubmitsFifo == MaxSubmits + 2
MaxTime == 2            \* readings of time.time() are 0..MaxTime

\* ------------------------------------------------------------ configuration
Ttl == 1                \* self._ttl_seconds, at its floor max(1, ...)
MAX_CONCURRENT_JOBS == 2 \* the configured pool size, at its default

Ids == 1..MaxJobsFifo   \* uuid4 tokens, in the order they are drawn
Workers == 1..MAX_CONCURRENT_JOBS
Callers == {"c1", "c2"} \* request threads calling the public interface
Sweeper == "sweeper"    \* the daemon thread of _start_cleanup_thread
Threads == Callers \cup {Sweeper}

Null == "null"          \* Python None in a field

\* What a submitted callable does when invoked: it returns a value, returns
\* None or raises.
Tasks == {"return", "none", "raise"}

\* the value a returning task hands back: it names the job it was given
returned(job_id) ==
    CASE job_id = 1 -> "V1"
      [] job_id = 2 -> "V2"
      [] OTHER -> "V3"

\* str(exc) of the exception a raising task raises
raised(job_id) == "M1"

\* str(exc) of the exception a failing Redis call raises
store_error == "M2"

\* Python values a task can return besides the payloads of returned: each
\* token is the repr of the value. The falsy values 0, False, '' and [], a
\* tuple, a dict with an int key, a set, and a list that contains itself
Falsy == {"0", "False", "''", "[]"}
PyValues == Falsy \cup {"(1, 2)", "{1: 'a'}", "{1, 2}", "[[...]]"}

\* the task returns a value that is not None
returns(task) == task = "return" \/ task \in PyValues

\* the value the task returns
result_of(task, job_id) == IF task = "return" THEN returned(job_id) ELSE task

\* str(exc) of the ValueError json.dumps raises on a circular reference
circular_error == "M6"

None == [absent |-> TRUE]   \* "no record": dict.get miss / empty hgetall

VARIABLES
    redis_url,       \* self._redis_url: "none", or what the broker behind the URL is like
    mode,            \* "local" (self._queue is None) or "distributed"
    faults,          \* TRUE when calls to the Redis store may raise
    max_concurrent,  \* ThreadPoolExecutor(max_workers=max_concurrent)
    limits,          \* how many create_job and submit calls the run makes
    now,             \* time.time()
    next_id,         \* number of uuid4/mkdtemp draws so far
    jobs,            \* self._jobs : id -> record, None when the key is missing
    jkeys,           \* key order of self._jobs (dict insertion order)
    lock,            \* self._lock: "free", or the thread that is inside "with self._lock"
    rhash,           \* Redis hash rna:job:<id> : field -> text
    rset,            \* Redis set rna:jobs
    dirs,            \* job directories that exist on disk
    workq,           \* executor work queue / rq queue, oldest first
    submitted,       \* history: the accepted submit calls in order, [id, busy, live]
    worker,          \* worker thread / rq consumer: [pc, id, task, n, since]
    thr,             \* caller and sweeper threads: [pc, id, ts, dir]
    ret,             \* the call that returned in the last step: [t, op, id, val]
    sweep            \* cleanup_expired locals [now, todo]; start: what the call found

vars == <<redis_url, mode, faults, max_concurrent, limits, now, next_id, jobs, jkeys, lock, rhash,
          rset, dirs, workq, submitted, worker, thr, ret, sweep>>

config == <<redis_url, mode, faults, max_concurrent, limits>>
store == <<jobs, jkeys, rhash, rset>>
pool == <<workq, submitted, worker>>

\* ------------------------------------------------------------------ helpers
NoRet == [t |-> "none", op |-> "none", id |-> 0, val |-> Null]
IdleWorker == [pc |-> "idle", id |-> 0, task |-> "none", n |-> 0, since |-> 0]
IdleThread == [pc |-> "idle", id |-> 0, ts |-> 0, dir |-> 0]
\* no cleanup_expired call is under way
NoSweep == [now |-> 0, todo |-> <<>>, start |-> {}]

\* True when the queue runs on the thread pool (self._queue is falsy).
Local == mode = "local"

\* self._lock = threading.Lock(), line 89: not held after construction
Free == "free"

\* the name of the executor thread w, as a holder of the lock
WorkerThread(w) == "worker-" \o ToString(w)

\* a "with self._lock" that is left with the lock still held
release_never(x) == x

\* the end of "with self._lock": the lock is free again
release(x) == Free

\* one "with self._lock" block of thread x in Local mode: it is entered when
\* the lock is free, or x has acquired it for this block already, and left
\* with the lock released. Distributed mode does not touch the lock
with_lock(x) ==
    IF Local THEN lock \in {Free, x} /\ lock' = release(x) ELSE lock' = lock

\* thread x is not inside a "with self._lock" block
Outside(x) == lock # x

\* Outcomes of one call to the store: it cannot raise unless faults are on,
\* and it always raises when no broker answers behind the URL.
Outcomes ==
    IF redis_url = "down" THEN {FALSE}
    ELSE IF faults THEN BOOLEAN ELSE {TRUE}

\* ids handed back by a completed create_job
Known ==
    {i \in 1..next_id :
        \A t \in Threads : ~(thr[t].id = i /\ thr[t].pc \in {"create_store", "create_sadd"})}

\* accepted submit calls for a job so far
nsubmit(job_id) == Cardinality({k \in DOMAIN submitted : submitted[k].id = job_id})

\* every thread of the pool is occupied with a work item
AllBusy == \A w \in Workers : w <= max_concurrent => worker[w].pc # "idle"

\* the record create_job builds
NewRecord(job_id, kind, t) ==
    [id |-> job_id, kind |-> kind, status |-> "queued", created_ts |-> t,
     updated_ts |-> t, job_dir |-> job_id, error |-> Null, result |-> Null]

\* a _set_status that writes the status and leaves updated_ts for later
set_status_half(js, job_id, status, t) ==
    IF js[job_id] # None
    THEN [js EXCEPT ![job_id].status = status]
    ELSE js

\* a _set_status that writes whether or not the record is there
set_status_blind(js, job_id, status, t) ==
    IF js[job_id] # None
    THEN [js EXCEPT ![job_id].status = status, ![job_id].updated_ts = t]
    ELSE [js EXCEPT ![job_id] = [NewRecord(job_id, "kind", t) EXCEPT !.status = status]]

\* JobQueue._set_status, Local branch
set_status(js, job_id, status, t) ==
    IF js[job_id] # None
    THEN [js EXCEPT ![job_id].status = status, ![job_id].updated_ts = t]
    ELSE js

\* a _set_result that stores nothing
set_result_drops(js, job_id, result, t) == js

\* a _set_error that stores nothing
set_error_drops(js, job_id, error, t) == js

\* JobQueue._set_result, Local branch
set_result(js, job_id, result, t) ==
    IF js[job_id] # None
    THEN [js EXCEPT ![job_id].result = result, ![job_id].updated_ts = t]
    ELSE js

\* JobQueue._set_error, Local branch
set_error(js, job_id, error, t) ==
    IF js[job_id] # None
    THEN [js EXCEPT ![job_id].error = error, ![job_id].updated_ts = t]
    ELSE js

\* ------------------------------------------------------------ Redis store
EmptyHash == [f \in {} |-> Null]

\* HSET key mapping: the given fields are written, the others are kept
hset(h, m) ==
    [f \in DOMAIN h \cup DOMAIN m |-> IF f \in DOMAIN m THEN m[f] ELSE h[f]]

\* decoded.get(f): the field's text, or the default when the field is missing
hget(h, f, default) == IF f \in DOMAIN h THEN h[f] ELSE default

\* what json.dumps and json.loads raise
TypeError == "TypeError"
ValueError == "ValueError"
JSONDecodeError == "JSONDecodeError"

\* the dict _serialize_result stores for a value json.dumps rejects
Placeholder == "{'error': 'Result not serializable.'}"

\* json.dumps of a Python value: the text, or the exception it raises. A
\* tuple is written as an array and an int key as a string; a set is no JSON
\* type (TypeError), a list inside itself is a circular reference (ValueError)
json_dumps(v) ==
    CASE v = "V1" -> "\"V1\""
      [] v = "V2" -> "\"V2\""
      [] v = "V3" -> "\"V3\""
      [] v = "0" -> "0"
      [] v = "False" -> "false"
      [] v = "''" -> "\"\""
      [] v = "[]" -> "[]"
      [] v = "(1, 2)" -> "[1, 2]"
      [] v = "{1: 'a'}" -> "{\"1\": \"a\"}"
      [] v = Placeholder -> "{\"error\": \"Result not serializable.\"}"
      [] v = "[[...]]" -> ValueError
      [] OTHER -> TypeError

\* _serialize_result raises: only TypeError is caught, line 31
serialize_raises(result) == json_dumps(result) = ValueError

\* the value the task returns makes _serialize_result raise, whichever job
\* the task was given
raises_in_serialize(task) ==
    returns(task) /\ \A i \in Ids : serialize_raises(result_of(task, i))

\* _serialize_result
serialize_result(result) ==
    IF json_dumps(result) = TypeError THEN json_dumps(Placeholder) ELSE json_dumps(result)

\* json.loads of a text: the Python value, or the exception it raises
json_loads(text) ==
    CASE text = "\"V1\"" -> "V1"
      [] text = "\"V2\"" -> "V2"
      [] text = "\"V3\"" -> "V3"
      [] text = "0" -> "0"
      [] text = "false" -> "False"
      [] text = "\"\"" -> "''"
      [] text = "[]" -> "[]"
      [] text = "[1, 2]" -> "[1, 2]"
      [] text = "{\"1\": \"a\"}" -> "{'1': 'a'}"
      [] text = "{\"error\": \"Result not serializable.\"}" -> Placeholder
      [] OTHER -> JSONDecodeError

\* a _deserialize_result that hands out "json.loads(value) or None"
deserialize_result_or_none(value) ==
    IF value = Null \/ json_loads(value) = JSONDecodeError \/ json_loads(value) \in Falsy
    THEN Null
    ELSE json_loads(value)

\* _deserialize_result: json.loads, None when the text is no JSON
deserialize_result(value) ==
    IF value = Null \/ json_loads(value) = JSONDecodeError THEN Null ELSE json_loads(value)

\* _redis_set_status
redis_set_status(rh, job_id, status, t) ==
    [rh EXCEPT ![job_id] = hset(@, [status |-> status, updated_ts |-> t])]

\* _redis_set_result
redis_set_result(rh, job_id, result, t) ==
    [rh EXCEPT ![job_id] = hset(@, [result |-> serialize_result(result), updated_ts |-> t])]

\* a _redis_set_error that stores nothing
redis_set_error_drops(rh, job_id, error, t) == rh

\* _redis_set_error
redis_set_error(rh, job_id, error, t) ==
    [rh EXCEPT ![job_id] = hset(@, [error |-> error, updated_ts |-> t])]

\* decode_job without the "or None" on error and result
decode_job_keeps_empty(h) ==
    [id |-> hget(h, "id", 0),
     kind |-> hget(h, "kind", Null),
     status |-> hget(h, "status", Null),
     created_ts |-> hget(h, "created_ts", 0),
     updated_ts |-> hget(h, "updated_ts", 0),
     job_dir |-> hget(h, "job_dir", 0),
     error |-> hget(h, "error", Null),
     result |-> hget(h, "result", Null)]

\* the dict get_job builds from a non-empty hgetall reply; a missing id or
\* job_dir reads as 0 (Python None), "x or None" turns "" into None
decode_job(h) ==
    [id |-> hget(h, "id", 0),
     kind |-> hget(h, "kind", Null),
     status |-> hget(h, "status", Null),
     created_ts |-> hget(h, "created_ts", 0),
     updated_ts |-> hget(h, "updated_ts", 0),
     job_dir |-> hget(h, "job_dir", 0),
     error |-> IF hget(h, "error", "") = "" THEN Null ELSE h["error"],
     result |-> IF hget(h, "result", "") = "" THEN Null
                ELSE deserialize_result(h["result"])]

\* a get_job that finds nothing
get_job_misses(job_id, ok) == None

\* JobQueue.get_job: the record a reader is handed; ok is whether hgetall
\* answered (always, in Local mode)
get_job(job_id, ok) ==
    IF Local
    THEN jobs[job_id]
    ELSE IF ~ok \/ rhash[job_id] = EmptyHash THEN None ELSE decode_job(rhash[job_id])

\* a get_public_status that hands out the whole record
get_public_status_full(job_id, ok) == get_job(job_id, ok)

\* JobQueue.get_public_status: None when get_job gives no record, else the
\* four public fields of it
get_public_status(job_id, ok) ==
    LET job == get_job(job_id, ok) IN
    IF job = None
    THEN None
    ELSE [job_id |-> job.id, status |-> job.status, error |-> job.error,
          result |-> job.result]

\* ------------------------------------------------------------------- Init
\* JobQueue.__init__: empty store, idle pool, cleanup thread started
\* what redis_url can be: not set, a URL redis cannot parse, the URL of a
\* broker that does not answer, the URL of a broker that answers
Urls == {"none", "bad_url", "down", "up"}

\* redis.Redis.from_url(redis_url), line 98: the client is built from the
\* parsed URL and connects on its first command, so only a URL that does not
\* parse raises here; Queue(connection=...) on line 99 sends nothing either
from_url_raises(url) == url = "bad_url"

\* JobQueue.__init__, lines 94-105: self._queue is set when a URL is given and
\* building the client and the queue did not raise
init_queue(url) ==
    IF url # "none" /\ ~from_url_raises(url) THEN "distributed" ELSE "local"

\* JobQueue.__init__, lines 87-93: nothing stored, nothing queued
InitRest(mcs, lim) ==
    /\ max_concurrent \in mcs
    /\ limits = lim
    /\ now = 0
    /\ next_id = 0
    /\ jobs = [i \in Ids |-> None]
    /\ jkeys = <<>>
    /\ lock = Free
    /\ rhash = [i \in Ids |-> EmptyHash]
    /\ rset = {}
    /\ dirs = {}
    /\ workq = <<>>
    /\ submitted = <<>>
    /\ worker = [w \in Workers |-> IdleWorker]
    /\ thr = [t \in Threads |-> IdleThread]
    /\ ret = NoRet
    /\ sweep = NoSweep

\* JobQueue.__init__ for the given URLs
InitAt(urls, fs, mcs, lim) ==
    /\ redis_url \in urls
    /\ mode = init_queue(redis_url)
    /\ faults \in (IF redis_url = "down" THEN {TRUE} ELSE fs)
    /\ InitRest(mcs, lim)

\* JobQueue.__init__ without a URL (Local mode) or with the URL of a broker
\* that answers (Distributed mode)
InitWith(modes, fs, mcs, lim) ==
    InitAt({u \in {"none", "up"} : init_queue(u) \in modes}, fs, mcs, lim)

\* time.time() advances
Tick ==
    /\ now < MaxTime
    /\ now' = now + 1
    /\ ret' = NoRet
    /\ UNCHANGED <<config, lock, next_id, store, dirs, pool, thr, sweep>>

\* where a thread goes when its finalize_job or create_job call returns
Resume(t) == IF t = Sweeper THEN "sweeping" ELSE "idle"

Return(t, r) ==
    /\ thr' = [thr EXCEPT ![t] = [IdleThread EXCEPT !.pc = Resume(t)]]
    /\ ret' = r

\* ------------------------------------------------------------- create_job
\* a uuid4 that hands out one token again and again
uuid4_repeats(n) == 1

\* uuid.uuid4().hex, line 109: the token of the draw after n draws; 122
\* random bits, no token comes twice
uuid4(n) == n + 1

\* tempfile.mkdtemp, line 110: creates a directory that did not exist, its
\* name told apart by the draw
mkdtemp(n) == n + 1

\* create_job, lines 109-121: uuid4, mkdtemp, time.time()
create_job(t) ==
    /\ t \in Callers
    /\ thr[t].pc = "idle"
    /\ next_id < limits.jobs
    /\ next_id' = next_id + 1
    /\ dirs' = dirs \cup {mkdtemp(next_id)}
    /\ thr' = [thr EXCEPT ![t] = [pc |-> "create_store", id |-> uuid4(next_id),
                                  ts |-> now, dir |-> mkdtemp(next_id)]]
    /\ ret' = NoRet
    /\ Outside(t)
    /\ UNCHANGED <<config, lock, now, store, pool, sweep>>

\* create_job, lines 141-144: the record goes into self._jobs under the lock
create_job_local(t) ==
    /\ Local
    /\ thr[t].pc = "create_store"
    /\ jobs' = [jobs EXCEPT ![thr[t].id] = NewRecord(thr[t].id, "kind", thr[t].ts)]
    /\ jkeys' = Append(jkeys, thr[t].id)
    /\ Return(t, [t |-> t, op |-> "create_job", id |-> thr[t].id, val |-> thr[t].dir])
    /\ with_lock(t)
    /\ UNCHANGED <<config, now, next_id, rhash, rset, dirs, pool, sweep>>

\* create_job, lines 122-137 and 139-140: hset of the eight fields; when it
\* raises the exception is logged and (job_id, job_dir) is returned all the same
create_job_hset(t) ==
    /\ ~Local
    /\ thr[t].pc = "create_store"
    /\ \E ok \in Outcomes :
        IF ok
        THEN /\ rhash' = [rhash EXCEPT ![thr[t].id] =
                    hset(@, [id |-> thr[t].id, kind |-> "kind", status |-> "queued",
                             created_ts |-> thr[t].ts, updated_ts |-> thr[t].ts,
                             job_dir |-> thr[t].dir, error |-> "", result |-> ""])]
             /\ thr' = [thr EXCEPT ![t].pc = "create_sadd"]
             /\ ret' = NoRet
        ELSE /\ rhash' = rhash
             /\ Return(t, [t |-> t, op |-> "create_job", id |-> thr[t].id, val |-> thr[t].dir])
    /\ UNCHANGED <<config, lock, now, next_id, jobs, jkeys, rset, dirs, pool, sweep>>

\* create_job, lines 138-140 and 144: sadd to the index set
create_job_sadd(t) ==
    /\ ~Local
    /\ thr[t].pc = "create_sadd"
    /\ \E ok \in Outcomes : rset' = IF ok THEN rset \cup {thr[t].id} ELSE rset
    /\ Return(t, [t |-> t, op |-> "create_job", id |-> thr[t].id, val |-> thr[t].dir])
    /\ UNCHANGED <<config, lock, now, next_id, jobs, jkeys, rhash, dirs, pool, sweep>>

\* ----------------------------------------------------------------- submit
\* a queue that turns the work item away
enqueue_rejects(q, item) == q

\* executor.submit / Queue.enqueue: the work item joins the tail of the
\* queue, which has no capacity limit
enqueue(q, item) == Append(q, item)

\* submit: one more work item at the tail of the executor's queue, or of the
\* rq queue (enqueue is not guarded: when it raises, submit raises)
submit(t, job_id, task) ==
    /\ t \in Callers
    /\ thr[t].pc = "idle"
    /\ job_id \in Known
    /\ Len(submitted) < limits.submits
    /\ \E ok \in (IF Local THEN {TRUE} ELSE Outcomes) :
        IF ok
        THEN /\ workq' = enqueue(workq, [id |-> job_id, task |-> task, n |-> Len(submitted) + 1])
             /\ submitted' = Append(submitted, [id |-> job_id, busy |-> AllBusy,
                                                 live |-> get_job(job_id, TRUE) # None])
             /\ ret' = [t |-> t, op |-> "submit", id |-> job_id, val |-> "returned"]
        ELSE /\ UNCHANGED <<workq, submitted>>
             /\ ret' = [t |-> t, op |-> "submit", id |-> job_id, val |-> "raised"]
    /\ Outside(t)
    /\ UNCHANGED <<config, lock, now, next_id, store, dirs, worker, thr, sweep>>

\* ---------------------------------------------------------------- get_job
\* a caller reads a record
read_job(t, job_id) ==
    /\ t \in Callers
    /\ thr[t].pc = "idle"
    /\ \E ok \in Outcomes :
        ret' = [t |-> t, op |-> "get_job", id |-> job_id, val |-> get_job(job_id, ok)]
    /\ with_lock(t)
    /\ UNCHANGED <<config, now, next_id, store, dirs, pool, thr, sweep>>

\* a caller polls the public status
read_status(t, job_id) ==
    /\ t \in Callers
    /\ thr[t].pc = "idle"
    /\ \E ok \in Outcomes :
        ret' = [t |-> t, op |-> "get_public_status", id |-> job_id,
                val |-> get_public_status(job_id, ok)]
    /\ with_lock(t)
    /\ UNCHANGED <<config, now, next_id, store, dirs, pool, thr, sweep>>

\* ----------------------------------------------------------- finalize_job
\* finalize_job, lines 208-210: read the record; no record, return False
finalize_begin(t, job_id) ==
    /\ with_lock(t)
    /\ \E ok \in Outcomes :
        LET job == get_job(job_id, ok) IN
        IF job = None
        THEN Return(t, [t |-> t, op |-> "finalize_job", id |-> job_id, val |-> FALSE])
        ELSE /\ thr' = [thr EXCEPT ![t] = [pc |-> "fin_rmtree", id |-> job_id,
                                           ts |-> 0, dir |-> job.job_dir]]
             /\ ret' = NoRet

\* a caller calls finalize_job(job_id)
finalize_job(t, job_id) ==
    /\ t \in Callers
    /\ thr[t].pc = "idle"
    /\ finalize_begin(t, job_id)
    /\ UNCHANGED <<config, now, next_id, store, dirs, pool, sweep>>

\* an rmtree that takes the directories next to the job's along
safe_rmtree_siblings(ds, path) == IF path = 0 THEN ds ELSE {}

\* _safe_rmtree: nothing for a falsy path, else the directory is removed
safe_rmtree(ds, path) == IF path = 0 THEN ds ELSE ds \ {path}

\* finalize_job, line 211
finalize_rmtree(t) ==
    /\ thr[t].pc = "fin_rmtree"
    /\ dirs' = safe_rmtree(dirs, thr[t].dir)
    /\ thr' = [thr EXCEPT ![t].pc = "fin_delete"]
    /\ ret' = NoRet
    /\ UNCHANGED <<config, lock, now, next_id, store, pool, sweep>>

\* a pop that leaves the key in place
jobs_pop_keeps(js, job_id) == js

\* a pop that marks the record instead of removing it
jobs_pop_marks(js, job_id) ==
    IF js[job_id] # None THEN [js EXCEPT ![job_id].status = "failed"] ELSE js

\* self._jobs.pop(job_id, None)
jobs_pop(js, job_id) == [js EXCEPT ![job_id] = None]

\* finalize_job, lines 218-221: pop under the lock, return True
finalize_pop(t) ==
    /\ Local
    /\ thr[t].pc = "fin_delete"
    /\ jobs' = jobs_pop(jobs, thr[t].id)
    /\ jkeys' = SelectSeq(jkeys, LAMBDA k : k # thr[t].id)
    /\ Return(t, [t |-> t, op |-> "finalize_job", id |-> thr[t].id, val |-> TRUE])
    /\ with_lock(t)
    /\ UNCHANGED <<config, now, next_id, rhash, rset, dirs, pool, sweep>>

\* finalize_job, lines 213-214 and 216-217: delete of the hash; when it raises
\* the exception is dropped, srem is skipped and True is returned
finalize_delete(t) ==
    /\ ~Local
    /\ thr[t].pc = "fin_delete"
    /\ \E ok \in Outcomes :
        IF ok
        THEN /\ rhash' = [rhash EXCEPT ![thr[t].id] = EmptyHash]
             /\ thr' = [thr EXCEPT ![t].pc = "fin_srem"]
             /\ ret' = NoRet
        ELSE /\ rhash' = rhash
             /\ Return(t, [t |-> t, op |-> "finalize_job", id |-> thr[t].id, val |-> TRUE])
    /\ UNCHANGED <<config, lock, now, next_id, jobs, jkeys, rset, dirs, pool, sweep>>

\* finalize_job, lines 215-217 and 221: srem from the index set, return True
finalize_srem(t) ==
    /\ ~Local
    /\ thr[t].pc = "fin_srem"
    /\ \E ok \in Outcomes : rset' = IF ok THEN rset \ {thr[t].id} ELSE rset
    /\ Return(t, [t |-> t, op |-> "finalize_job", id |-> thr[t].id, val |-> TRUE])
    /\ UNCHANGED <<config, lock, now, next_id, jobs, jkeys, rhash, dirs, pool, sweep>>

\* ------------------------------------------------------ the HTTP routes
\* os.path.exists(result_path): the task of a finished job wrote its result
\* file into job_dir before it returned (deg.py lines 65-71), so the file is
\* there as long as the directory is
result_exists(job) == job.job_dir \in dirs

\* the answers of the download routes
NotReady == [code |-> 404, error |-> "Results expired or not ready. Please run again."]
Missing == [code |-> 404, error |-> "Results missing. Please run again."]
Sent == [code |-> 200, error |-> Null]

\* the test of the download routes: a record, with status finished
servable(job) == job # None /\ job.status = "finished"

\* results_download / download: 404 without a finished record or without the
\* result file; else the file is sent and finalize_job is registered to run
\* when the response is closed
download(t, result_id) ==
    /\ t \in Callers
    /\ thr[t].pc = "idle"
    /\ \E ok \in Outcomes :
        LET job == get_job(result_id, ok) IN
        IF ~servable(job)
        THEN /\ ret' = [t |-> t, op |-> "download", id |-> result_id, val |-> NotReady]
             /\ thr' = thr
        ELSE IF ~result_exists(job)
        THEN /\ ret' = [t |-> t, op |-> "download", id |-> result_id, val |-> Missing]
             /\ thr' = thr
        ELSE /\ ret' = [t |-> t, op |-> "download", id |-> result_id, val |-> Sent]
             /\ thr' = [thr EXCEPT ![t] = [pc |-> "send_file", id |-> result_id,
                                           ts |-> 0, dir |-> 0]]
    /\ with_lock(t)
    /\ UNCHANGED <<config, now, next_id, store, dirs, pool, sweep>>

\* the response is closed: call_on_close runs finalize_job(result_id)
download_close(t) ==
    /\ thr[t].pc = "send_file"
    /\ finalize_begin(t, thr[t].id)
    /\ UNCHANGED <<config, now, next_id, store, dirs, pool, sweep>>

\* job_status, app.py: 404 "missing" without a record, else 200 with status,
\* result and error, a failed job without an error gets "Job failed."
job_status(t, job_id) ==
    /\ t \in Callers
    /\ thr[t].pc = "idle"
    /\ \E ok \in Outcomes :
        LET job == get_job(job_id, ok) IN
        ret' = [t |-> t, op |-> "job_status", id |-> job_id,
                val |-> IF job = None
                        THEN [code |-> 404, status |-> "missing", result |-> Null,
                              error |-> "Job not found or expired."]
                        ELSE [code |-> 200,
                              status |-> IF job.status = Null THEN "unknown" ELSE job.status,
                              result |-> job.result,
                              error |-> IF job.status = "failed" /\ job.error \in {Null, ""}
                                        THEN "Job failed." ELSE job.error]]
    /\ with_lock(t)
    /\ UNCHANGED <<config, now, next_id, store, dirs, pool, thr, sweep>>

\* -------------------------------------------------------- cleanup_expired
\* a ttl test that also takes a job of age exactly ttl
expired_at_ttl(t, created_ts) == t - created_ts >= Ttl

\* now - created_ts > self._ttl_seconds
expired(t, created_ts) == t - created_ts > Ttl

\* the jobs handed out by create_job that have a record, each with its created_ts
StoredJobs ==
    {<<i, get_job(i, TRUE).created_ts>> : i \in {k \in Known : get_job(k, TRUE) # None}}

\* the orders in which a set can be iterated
Perms(S) ==
    {s \in [1..Cardinality(S) -> S] : \A a, b \in DOMAIN s : a # b => s[a] # s[b]}

\* cleanup_expired, lines 224 and 238-242: the expired ids, in key order,
\* collected under the lock (the cleanup thread woke from its sleep)
cleanup_expired_local ==
    /\ Local
    /\ thr[Sweeper].pc = "idle"
    /\ sweep' = [now |-> now,
                 todo |-> SelectSeq(jkeys, LAMBDA k : expired(now, jobs[k].created_ts)),
                 start |-> StoredJobs]
    /\ thr' = [thr EXCEPT ![Sweeper].pc = "sweeping"]
    /\ ret' = NoRet
    /\ with_lock(Sweeper)
    /\ UNCHANGED <<config, now, next_id, store, dirs, pool>>

\* cleanup_expired, lines 243-244: finalize_job for the next expired id
cleanup_finalize_local ==
    /\ Local
    /\ thr[Sweeper].pc = "sweeping"
    /\ sweep.todo # <<>>
    /\ sweep' = [sweep EXCEPT !.todo = Tail(@)]
    /\ finalize_begin(Sweeper, Head(sweep.todo))
    /\ UNCHANGED <<config, now, next_id, store, dirs, pool>>

\* cleanup_expired, lines 224-229: smembers of the index set; [] when it raises
cleanup_expired_smembers ==
    /\ ~Local
    /\ thr[Sweeper].pc = "idle"
    /\ \E ok \in Outcomes : \E order \in (IF ok THEN Perms(rset) ELSE {<<>>}) :
        sweep' = [now |-> now, todo |-> order, start |-> StoredJobs]
    /\ thr' = [thr EXCEPT ![Sweeper].pc = "sweeping"]
    /\ ret' = NoRet
    /\ UNCHANGED <<config, lock, now, next_id, store, dirs, pool>>

\* cleanup_expired, lines 230-235: get_job of the next member, skipped when it
\* has no record or is young enough
cleanup_check ==
    /\ ~Local
    /\ thr[Sweeper].pc = "sweeping"
    /\ sweep.todo # <<>>
    /\ sweep' = [sweep EXCEPT !.todo = Tail(@)]
    /\ \E ok \in Outcomes :
        LET job == get_job(Head(sweep.todo), ok) IN
        IF job # None /\ expired(sweep.now, job.created_ts)
        THEN thr' = [thr EXCEPT ![Sweeper] = [IdleThread EXCEPT !.pc = "sweep_fin",
                                                              !.id = Head(sweep.todo)]]
        ELSE thr' = thr
    /\ ret' = NoRet
    /\ UNCHANGED <<config, lock, now, next_id, store, dirs, pool>>

\* cleanup_expired, line 236: finalize_job of the expired member
cleanup_finalize ==
    /\ ~Local
    /\ thr[Sweeper].pc = "sweep_fin"
    /\ finalize_begin(Sweeper, thr[Sweeper].id)
    /\ UNCHANGED <<config, now, next_id, store, dirs, pool, sweep>>

\* a cleanup thread that ends after its first sweep
cleanup_loop_exits == "exited"

\* _cleanup_loop, "while True": after a sweep the thread sleeps again
cleanup_loop == "idle"

\* cleanup_expired returns; _cleanup_loop goes back to sleep
cleanup_return ==
    /\ thr[Sweeper].pc = "sweeping"
    /\ sweep.todo = <<>>
    /\ thr' = [thr EXCEPT ![Sweeper] = [IdleThread EXCEPT !.pc = cleanup_loop]]
    /\ ret' = [t |-> Sweeper, op |-> "cleanup_expired", id |-> 0, val |-> Null]
    /\ sweep' = NoSweep
    /\ UNCHANGED <<config, lock, now, next_id, store, dirs, pool>>

\* ---------------------------------------------------------------- workers
\* a pool that ignores max_concurrent
PoolSizeUnbounded == MAX_CONCURRENT_JOBS

\* threads of the executor in Local mode, rq consumers in Distributed mode
PoolSize == IF Local THEN max_concurrent ELSE MAX_CONCURRENT_JOBS

\* a queue that hands out the newest waiting item
next_item_newest(q) == Len(q)

\* which waiting work item a free worker is handed: the oldest
next_item(q) == 1

\* a queue that hands out an item and keeps it
dequeue_keeps(q, k) == q

\* work_queue.get(): the item handed out leaves the queue
dequeue(q, k) == [j \in 1..(Len(q) - 1) |-> IF j < k THEN q[j] ELSE q[j + 1]]

\* when a consumer got to where it stands: the time.time() of its next
\* _redis_set_* call (lines 72, 77, 82) is read on the way from there to the
\* hset, before the store takes the command. In Local mode the time is read
\* inside the lock (lines 257, 270, 283), so nothing needs remembering
reached == IF Local THEN 0 ELSE now

\* the updated_ts a consumer's hset can carry
stamps(w) == worker[w].since..now

\* a free worker takes a work item off the queue (the threads are
\* interchangeable: the free one with the lowest number stands for any)
take(w) ==
    /\ w <= PoolSize
    /\ worker[w].pc = "idle"
    /\ \A v \in 1..(w - 1) : worker[v].pc # "idle"
    /\ workq # <<>>
    /\ LET k == next_item(workq) IN
        /\ worker' = [worker EXCEPT ![w] = [pc |-> "set_running", id |-> workq[k].id,
                                            task |-> workq[k].task, n |-> workq[k].n,
                                            since |-> reached]]
        /\ workq' = dequeue(workq, k)
    /\ ret' = NoRet
    /\ UNCHANGED <<config, lock, now, next_id, store, dirs, submitted, thr, sweep>>

\* task references that _import_callable cannot resolve: a string without
\* ':', a module that does not exist, a module without the function
Unresolvable == {"no_colon", "no_module", "no_function"}

\* _import_callable gets a function out of the reference
resolves(path) == path \notin Unresolvable

\* an _import_callable that raises without a message
import_error_lost(path) == Null

\* str(exc) of what _import_callable raises: line 47 ValueError (one part to
\* unpack), line 48 ModuleNotFoundError, line 49 AttributeError
import_error(path) ==
    CASE path = "no_colon" -> "M3"
      [] path = "no_module" -> "M4"
      [] path = "no_function" -> "M5"
      [] OTHER -> Null

\* the worker's next write, _run_job lines 161-171. At "call" the task is
\* running: it ends, and its outcome decides the write that follows
run_job_write(js, w, t) ==
    LET job_id == worker[w].id
        task == worker[w].task
    IN  CASE worker[w].pc = "set_running" -> set_status(js, job_id, "running", t)
          [] worker[w].pc = "call" /\ returns(task) ->
                set_result(js, job_id, result_of(task, job_id), t)
          [] worker[w].pc = "call" /\ task = "none" -> set_status(js, job_id, "finished", t)
          [] worker[w].pc = "call" /\ task = "raise" -> set_error(js, job_id, raised(job_id), t)
          [] worker[w].pc = "call" /\ task = "raise_blank" -> set_error(js, job_id, "", t)
          [] worker[w].pc = "set_finished" -> set_status(js, job_id, "finished", t)
          [] worker[w].pc = "import_error" -> set_error(js, job_id, import_error(task), t)
          [] worker[w].pc = "set_failed" -> set_status(js, job_id, "failed", t)

\* the same for run_job_wrapper, lines 56-66
run_job_wrapper_write(rh, w, t) ==
    LET job_id == worker[w].id
        task == worker[w].task
    IN  CASE worker[w].pc = "set_running" -> redis_set_status(rh, job_id, "running", t)
          [] worker[w].pc = "call" /\ returns(task) ->
                IF serialize_raises(result_of(task, job_id))
                THEN redis_set_error(rh, job_id, circular_error, t)
                ELSE redis_set_result(rh, job_id, result_of(task, job_id), t)
          [] worker[w].pc = "call" /\ task = "none" -> redis_set_status(rh, job_id, "finished", t)
          [] worker[w].pc = "call" /\ task = "raise" -> redis_set_error(rh, job_id, raised(job_id), t)
          [] worker[w].pc = "call" /\ task = "raise_blank" -> redis_set_error(rh, job_id, "", t)
          [] worker[w].pc = "set_finished" -> redis_set_status(rh, job_id, "finished", t)
          [] worker[w].pc = "import_error" -> redis_set_error(rh, job_id, import_error(task), t)
          [] worker[w].pc = "set_error" -> redis_set_error(rh, job_id, store_error, t)
          [] worker[w].pc = "set_failed" -> redis_set_status(rh, job_id, "failed", t)

\* a worker that never gets past a task that raised
after_write_hangs(pc, task) ==
    CASE pc = "set_running" -> "call"
      [] pc = "call" /\ task = "return" -> "set_finished"
      [] pc = "call" /\ task = "none" -> "idle"
      [] pc = "call" /\ task = "raise" -> "call"
      [] pc = "set_finished" -> "idle"
      [] pc = "set_error" -> "set_failed"
      [] pc = "set_failed" -> "idle"

\* where the worker stands after the write
after_write(pc, task) ==
    CASE pc = "set_running" -> IF resolves(task) THEN "call" ELSE "import_error"
      [] pc = "import_error" -> "set_failed"
      [] pc = "call" /\ returns(task) ->
            IF ~Local /\ raises_in_serialize(task) THEN "set_failed"
            ELSE "set_finished"
      [] pc = "call" /\ task = "none" -> "idle"
      [] pc = "call" /\ task = "raise" -> "set_failed"
      [] pc = "call" /\ task = "raise_blank" -> "set_failed"
      [] pc = "set_finished" -> "idle"
      [] pc = "set_error" -> "set_failed"
      [] pc = "set_failed" -> "idle"

\* the first write after the call of the task is the handler's _redis_set_error
\* (line 65): the task raised, or _serialize_result did (line 77)
InHandler(task) ==
    \/ task \in {"raise", "raise_blank"}
    \/ raises_in_serialize(task)

\* where the rq consumer stands when its write raised, run_job_wrapper lines
\* 56-67: outside the try (line 56) and inside the handler (lines 65-66) the
\* exception leaves the wrapper; inside the try (lines 61-62) the handler
\* takes over and writes the error
after_raise(pc, task) ==
    CASE pc = "set_running" -> "idle"
      [] pc = "import_error" -> "idle"
      [] pc = "call" /\ InHandler(task) -> "idle"
      [] pc = "call" /\ ~InHandler(task) -> "set_error"
      [] pc = "set_finished" -> "set_error"
      [] pc = "set_error" -> "idle"
      [] pc = "set_failed" -> "idle"

AdvanceTo(w, pc) ==
    worker' = [worker EXCEPT ![w] = IF pc = "idle" THEN IdleWorker
                                    ELSE [worker[w] EXCEPT !.pc = pc, !.since = reached]]

Advance(w) == AdvanceTo(w, after_write(worker[w].pc, worker[w].task))

\* how run_job_wrapper ends once the write at pc went through: line 63
\* returns True, line 67 re-raises what the handler has recorded
wrapper_exit(pc) == IF pc = "set_failed" THEN "raised" ELSE "returned"

\* what the pool sees of worker w's step: nothing while the function op is
\* still running (pc is where it stands next), and how it ended once it left
Left(w, pc, op, val) ==
    IF pc = "idle" THEN [t |-> "pool", op |-> op, id |-> worker[w].id, val |-> val]
    ELSE NoRet

\* _run_job: one write of the executor thread to self._jobs
run_job(w) ==
    /\ Local
    /\ worker[w].pc # "idle"
    /\ jobs' = run_job_write(jobs, w, now)
    /\ Advance(w)
    /\ ret' = Left(w, after_write(worker[w].pc, worker[w].task), "_run_job", "returned")
    /\ with_lock(WorkerThread(w))
    /\ UNCHANGED <<config, now, next_id, jkeys, rhash, rset, dirs, workq, submitted, thr, sweep>>

\* run_job_wrapper: one write of the rq consumer to the job's hash
run_job_wrapper(w) ==
    /\ ~Local
    /\ worker[w].pc # "idle"
    /\ \E ok \in Outcomes :
        IF ok
        THEN /\ \E t \in stamps(w) : rhash' = run_job_wrapper_write(rhash, w, t)
             /\ Advance(w)
             /\ ret' = Left(w, after_write(worker[w].pc, worker[w].task), "run_job_wrapper",
                            wrapper_exit(worker[w].pc))
        ELSE /\ rhash' = rhash
             /\ AdvanceTo(w, after_raise(worker[w].pc, worker[w].task))
             /\ ret' = Left(w, after_raise(worker[w].pc, worker[w].task), "run_job_wrapper",
                            "raised")
    /\ UNCHANGED <<config, lock, now, next_id, jobs, jkeys, rset, dirs, workq, submitted, thr, sweep>>

\* --------------------------------------------------------------- the lock
\* the thread stands at a "with self._lock" of Local mode: an idle request
\* thread can call get_job or finalize_job (lines 192, 208), create_job is
\* at line 142, finalize_job at line 219, call_on_close at finalize_job; the
\* cleanup thread is at line 239 when it wakes and at finalize_job's get_job
\* for each expired id
AtLock(t) ==
    \/ thr[t].pc \in {"create_store", "fin_delete", "send_file"}
    \/ thr[t].pc = "idle"
    \/ t = Sweeper /\ thr[t].pc = "sweeping" /\ sweep.todo # <<>>

\* the thread enters "with self._lock": it gets the lock when it is free,
\* and waits as long as it is not
acquire(t) ==
    /\ Local
    /\ AtLock(t)
    /\ lock = Free
    /\ lock' = t
    /\ ret' = NoRet
    /\ UNCHANGED <<config, now, next_id, jobs, jkeys, rhash, rset, dirs, pool, thr, sweep>>

\* the executor thread enters the "with self._lock" of its next _set_status,
\* _set_result or _set_error (lines 253, 266, 279)
acquire_worker(w) ==
    /\ Local
    /\ w <= PoolSize
    /\ worker[w].pc # "idle"
    /\ lock = Free
    /\ lock' = WorkerThread(w)
    /\ ret' = NoRet
    /\ UNCHANGED <<config, now, next_id, jobs, jkeys, rhash, rset, dirs, pool, thr, sweep>>

\* ------------------------------------------------------------------- Next
\* the public interface as the request threads T call it
Calls(T) ==
    \/ \E t \in T : create_job(t)
    \/ \E t \in T, i \in Ids : finalize_job(t, i)
    \/ \E t \in T \cup {Sweeper} : finalize_rmtree(t)

CallsLocal(T) ==
    \/ \E t \in T : create_job_local(t)
    \/ \E t \in T \cup {Sweeper} : finalize_pop(t)

CallsDistributed(T) ==
    \/ \E t \in T : create_job_hset(t)
    \/ \E t \in T : create_job_sadd(t)
    \/ \E t \in T \cup {Sweeper} : finalize_delete(t)
    \/ \E t \in T \cup {Sweeper} : finalize_srem(t)

SubmitOf(T, K) == \E t \in T, i \in Ids, task \in K : submit(t, i, task)

Submit(T) == SubmitOf(T, Tasks)

Reads(T) == \E t \in T, i \in Ids : read_job(t, i) \/ read_status(t, i)

\* _cleanup_loop
CleanupLocal == cleanup_expired_local \/ cleanup_finalize_local \/ cleanup_return

CleanupDistributed ==
    cleanup_expired_smembers \/ cleanup_check \/ cleanup_finalize \/ cleanup_return

PoolLocal == \E w \in Workers : take(w) \/ run_job(w)

PoolDistributed == \E w \in Workers : take(w) \/ run_job_wrapper(w)

Modes == {"local", "distributed"}
PoolSizes == 1..MAX_CONCURRENT_JOBS
Limits == [jobs |-> MaxJobs, submits |-> MaxSubmits]

\* One request thread, both modes, the workers; the store answers every call.
Next ==
    \/ Calls({"c1"}) \/ CallsLocal({"c1"}) \/ CallsDistributed({"c1"})
    \/ Submit({"c1"})
    \/ PoolLocal \/ PoolDistributed

Init == InitWith(Modes, {FALSE}, PoolSizes, Limits)

Spec == Init /\ [][Next]_vars

\* Local mode: one request thread and the thread pool.
NextPool == Calls({"c1"}) \/ CallsLocal({"c1"}) \/ Submit({"c1"}) \/ PoolLocal

InitLocal == InitWith({"local"}, {FALSE}, PoolSizes, Limits)

SpecPool == InitLocal /\ [][NextPool]_vars

\* The pool is scheduled fairly and every task ends.
FairPool == \A w \in Workers : WF_vars(take(w) \/ run_job(w))

SpecPoolFair == SpecPool /\ FairPool

\* Local mode, task references that resolve and that do not.
NextImport ==
    \/ Calls({"c1"}) \/ CallsLocal({"c1"})
    \/ SubmitOf({"c1"}, {"return"} \cup Unresolvable)
    \/ PoolLocal

SpecImport == InitLocal /\ [][NextImport]_vars

SpecImportFair == SpecImport /\ FairPool

\* Local mode, a longer run without finalize_job: jobs queue up behind a full pool.
NextFifo ==
    \/ \E t \in {"c1"} : create_job(t) \/ create_job_local(t)
    \/ SubmitOf({"c1"}, {"return"})
    \/ PoolLocal

InitFifo == InitWith({"local"}, {FALSE}, PoolSizes, [jobs |-> MaxJobsFifo, submits |-> MaxSubmitsFifo])

SpecFifo == InitFifo /\ [][NextFifo]_vars

\* Local mode: two request threads racing on create_job and finalize_job.
NextRace == Calls(Callers) \/ CallsLocal(Callers)

SpecRace == InitLocal /\ [][NextRace]_vars

\* Distributed mode, one consumer: tasks that return Python values of several
\* kinds, and a reader.
NextJson ==
    \/ \E t \in {"c1"} : create_job(t) \/ create_job_hset(t) \/ create_job_sadd(t)
    \/ SubmitOf({"c1"}, PyValues \cup {"return"})
    \/ PoolDistributed
    \/ \E i \in Ids : read_job("c1", i)

InitJson == InitWith({"distributed"}, {FALSE}, {1}, Limits)

SpecJson == InitJson /\ [][NextJson]_vars

\* The download and status routes in both modes, one request thread; calls to
\* the store may raise.
NextDownload ==
    \/ \E t \in {"c1"} : create_job(t) \/ create_job_local(t) \/ create_job_hset(t) \/ create_job_sadd(t)
    \/ SubmitOf({"c1"}, {"return", "raise"})
    \/ PoolLocal \/ PoolDistributed
    \/ \E t \in {"c1"}, i \in Ids : download(t, i)
    \/ \E t \in {"c1"} : download_close(t)
    \/ \E t \in {"c1"} : finalize_rmtree(t) \/ finalize_pop(t) \/ finalize_delete(t) \/ finalize_srem(t)
    \/ \E i \in Ids : job_status("c1", i)

InitDownload == InitWith(Modes, BOOLEAN, {1}, Limits)

SpecDownload == InitDownload /\ [][NextDownload]_vars

\* Local mode with the lock: a request thread, the executor thread and the
\* cleanup thread take the lock step by step.
NextLock ==
    \/ Tick
    \/ \E t \in {"c1", Sweeper} : acquire(t)
    \/ \E w \in Workers : acquire_worker(w)
    \/ Calls({"c1"}) \/ CallsLocal({"c1"})
    \/ SubmitOf({"c1"}, {"return"})
    \/ PoolLocal
    \/ CleanupLocal
    \/ \E i \in Ids : read_job("c1", i)

InitLock == InitWith({"local"}, {FALSE}, {1}, Limits)

SpecLock == InitLock /\ [][NextLock]_vars

\* the step that leaves a "with self._lock" block
Leave == lock # Free /\ NextLock /\ lock' = Free

\* A thread inside "with self._lock" runs on: the blocks hold dict operations
\* and time.time(), nothing that waits (lines 142-143, 192-194, 219-220,
\* 239-242, 253-257, 266-270, 279-283).
SpecLockFair == SpecLock /\ WF_vars(Leave)

\* One request thread, both modes; calls to the store may raise.
NextFaulty ==
    Calls({"c1"}) \/ CallsLocal({"c1"}) \/ CallsDistributed({"c1"}) \/ Reads({"c1"})

InitFaulty == InitWith(Modes, {TRUE}, PoolSizes, Limits)

SpecFaulty == InitFaulty /\ [][NextFaulty]_vars

\* Both modes with the clock and the cleanup thread, no workers.
NextSweep ==
    \/ Tick
    \/ Calls({"c1"}) \/ CallsLocal({"c1"}) \/ CallsDistributed({"c1"})
    \/ CleanupLocal \/ CleanupDistributed

SpecSweep == Init /\ [][NextSweep]_vars

\* One request thread that also reads, both modes, the workers.
NextReads == Next \/ Reads({"c1"})

SpecReads == Init /\ [][NextReads]_vars

\* One request thread that creates, submits and reads, both modes, the
\* workers; with and without store calls that raise. No finalize_job.
NextReadsFaulty ==
    \/ \E t \in {"c1"} :
            create_job(t) \/ create_job_local(t) \/ create_job_hset(t) \/ create_job_sadd(t)
    \/ Submit({"c1"})
    \/ PoolLocal \/ PoolDistributed
    \/ Reads({"c1"})

InitReadsFaulty == InitWith(Modes, BOOLEAN, PoolSizes, Limits)

SpecReadsFaulty == InitReadsFaulty /\ [][NextReadsFaulty]_vars

\* A broker URL is configured: one that does not parse, one of a broker that
\* does not answer, one of a broker that answers. No finalize_job.
InitBroker == InitAt({"bad_url", "down", "up"}, {FALSE}, PoolSizes, Limits)

SpecBroker == InitBroker /\ [][NextReadsFaulty]_vars

\* Two request threads create jobs at the same time, one of them also
\* finalizes; both modes, store calls may raise. No workers.
NextCreate ==
    \/ \E t \in Callers :
            create_job(t) \/ create_job_local(t) \/ create_job_hset(t) \/ create_job_sadd(t)
    \/ Calls({"c1"}) \/ CallsLocal({"c1"}) \/ CallsDistributed({"c1"})

InitCreate ==
    InitWith(Modes, BOOLEAN, {1}, [jobs |-> MaxJobsFifo, submits |-> MaxSubmits])

SpecCreate == InitCreate /\ [][NextCreate]_vars

\* Local mode with the clock: one request thread that creates, submits,
\* reads and finalizes while the pool works.
NextClock == Tick \/ NextPool \/ Reads({"c1"})

SpecClock == InitLocal /\ [][NextClock]_vars

\* Local mode with the clock and the cleanup thread: one request thread that
\* creates, submits, reads and finalizes while the pool works.
NextEvict ==
    \/ Tick
    \/ Calls({"c1"}) \/ CallsLocal({"c1"})
    \/ SubmitOf({"c1"}, {"return", "raise"})
    \/ PoolLocal
    \/ CleanupLocal
    \/ \E i \in Ids : read_job("c1", i)

InitEvict == InitWith({"local"}, {FALSE}, {1}, Limits)

SpecEvict == InitEvict /\ [][NextEvict]_vars

\* Both modes side by side with the clock: one request thread that creates,
\* submits and polls, one worker; also a task that raises without a message.
\* No finalize_job.
NextModes ==
    \/ Tick
    \/ \E t \in {"c1"} :
            create_job(t) \/ create_job_local(t) \/ create_job_hset(t) \/ create_job_sadd(t)
    \/ SubmitOf({"c1"}, Tasks \cup {"raise_blank"})
    \/ PoolLocal \/ PoolDistributed
    \/ \E i \in Ids : read_status("c1", i)

InitModes == InitWith(Modes, {FALSE}, {1}, Limits)

SpecModes == InitModes /\ [][NextModes]_vars

\* Both modes with the clock, the cleanup thread and one worker: jobs of every
\* status grow old; no finalize_job calls of request threads.
NextSweepPool ==
    \/ Tick
    \/ \E t \in {"c1"} : create_job(t) \/ create_job_local(t) \/ create_job_hset(t) \/ create_job_sadd(t)
    \/ \E t \in {Sweeper} : finalize_rmtree(t) \/ finalize_pop(t) \/ finalize_delete(t) \/ finalize_srem(t)
    \/ Submit({"c1"})
    \/ PoolLocal \/ PoolDistributed
    \/ CleanupLocal \/ CleanupDistributed

InitSweepPool == InitWith(Modes, {FALSE}, {1}, Limits)

SpecSweepPool == InitSweepPool /\ [][NextSweepPool]_vars

\* Both modes with the clock and the cleanup thread; calls to the store may
\* raise. The cleanup thread is scheduled again and again: it wakes from its
\* sleep, and every store call it makes returns or raises.
SweeperNext ==
    \/ CleanupLocal \/ CleanupDistributed
    \/ finalize_rmtree(Sweeper) \/ finalize_pop(Sweeper)
    \/ finalize_delete(Sweeper) \/ finalize_srem(Sweeper)

SpecSweepFaulty == InitFaulty /\ [][NextSweep]_vars

SpecSweepFair == SpecSweepFaulty /\ WF_vars(SweeperNext)

\* ----------------------------------------------------------------- claims
QueuedRecord(r) == r # None /\ r.status = "queued" /\ r.error = Null /\ r.result = Null

Rank(status) ==
    CASE status = "queued" -> 0
      [] status = "running" -> 1
      [] OTHER -> 2

\* C2 as stated: over any sequence of create_job, submit (also repeated for
\* one id), worker steps and finalize_job, the status of a record only moves
\* forward along queued -> running -> {finished, failed} and never changes
\* once it is finished or failed.
C2_StatusMonotonic ==
    [][\A i \in Ids :
        jobs[i] # None /\ jobs'[i] # None =>
            \/ jobs'[i].status = jobs[i].status
            \/ Rank(jobs[i].status) < Rank(jobs'[i].status)]_vars

\* no work item of the job waits or is being executed
NoWorkFor(job_id) ==
    /\ \A k \in DOMAIN workq : workq[k].id # job_id
    /\ \A w \in Workers : worker[w].pc = "idle" \/ worker[w].id # job_id

\* ---------------------------------------------------- C3, C4: task outcome
\* a work item of the job with the given task waits, and it is the job's only one
Pending(job_id, task) ==
    /\ nsubmit(job_id) = 1
    /\ \E k \in DOMAIN workq : workq[k].id = job_id /\ workq[k].task = task

\* the only work item of the job is with a worker and has the given task
Executing(job_id, task) ==
    /\ nsubmit(job_id) = 1
    /\ \E w \in Workers :
        worker[w].pc # "idle" /\ worker[w].id = job_id /\ worker[w].task = task

\* get_job shows the job finished with the value its task returned
FinishedWith(job_id) ==
    /\ jobs[job_id] # None
    /\ jobs[job_id].status = "finished"
    /\ jobs[job_id].result = returned(job_id)

\* get_job shows the job failed with the message its task raised, no result
FailedWith(job_id) ==
    /\ jobs[job_id] # None
    /\ jobs[job_id].status = "failed"
    /\ jobs[job_id].error = raised(job_id)
    /\ jobs[job_id].result = Null

\* the job left the case of the claims: removed, or submitted again
Dropped(job_id) == jobs[job_id] = None \/ nsubmit(job_id) > 1

\* C3 (Local mode, fair pool): a job submitted once with a task that returns
\* V, and not finalized, eventually shows status finished with result V; and
\* from then on, as long as it is neither finalized nor submitted again, every
\* get_job still shows finished with result V.
C3_Theorem ==
    /\ \A i \in Ids : Pending(i, "return") ~> (FinishedWith(i) \/ Dropped(i))
    /\ [][\A i \in Ids :
            nsubmit(i) = 1 /\ FinishedWith(i) /\ ~Dropped(i)' => FinishedWith(i)']_vars

\* a job submitted once has finished with the value its task returned
C3_Witness ==
    \E i \in Ids : nsubmit(i) = 1 /\ FinishedWith(i) /\ NoWorkFor(i)

\* C4 (Local mode, fair pool): a job submitted once with a task that raises
\* with message M, and not finalized, eventually shows status failed with
\* error M; its result is null before, while and after the task runs.
C4_Theorem ==
    /\ \A i \in Ids : Pending(i, "raise") ~> (FailedWith(i) \/ Dropped(i))
    /\ [][\A i \in Ids :
            /\ (Pending(i, "raise") \/ Executing(i, "raise")) /\ jobs[i] # None
                    => jobs[i].result = Null
            /\ nsubmit(i) = 1 /\ FailedWith(i) /\ ~Dropped(i)' => FailedWith(i)']_vars

\* a job submitted once has failed with the message its task raised
C4_Witness ==
    \E i \in Ids : nsubmit(i) = 1 /\ FailedWith(i) /\ NoWorkFor(i)

\* C5 as stated: in every state a reader can observe, also between two steps
\* of a worker, result and error are not both set, a result comes only with
\* status finished and an error only with status failed.
C5_ResultErrorExclusive ==
    \A i \in Ids :
        LET r == get_job(i, TRUE) IN
        r # None =>
            /\ ~(r.result # Null /\ r.error # Null)
            /\ r.result # Null => r.status = "finished"
            /\ r.error # Null => r.status = "failed"

C7_TrueOnlyIfRemoved ==
    [][ret'.op = "finalize_job" /\ ret'.val => jobs[ret'.id] # None]_vars

\* ------------------------------------------------------ C8, C10: ordering
\* submit(a) returned before submit(b) was called
Before(a, b) ==
    \E ka, kb \in DOMAIN submitted :
        ka < kb /\ submitted[ka].id = a /\ submitted[kb].id = b

\* the same, both calls made while every thread of the pool was busy
BusyBefore(a, b) ==
    \E ka, kb \in DOMAIN submitted :
        /\ ka < kb
        /\ submitted[ka].id = a /\ submitted[ka].busy
        /\ submitted[kb].id = b /\ submitted[kb].busy

StatusIs(job_id, status) == jobs[job_id] # None /\ jobs[job_id].status = status

Terminal(job_id) == StatusIs(job_id, "finished") \/ StatusIs(job_id, "failed")

\* the job is terminal with what its task produced
DoneWith(job_id, task) ==
    CASE task = "return" -> FinishedWith(job_id)
      [] task = "none" -> StatusIs(job_id, "finished") /\ jobs[job_id].result = Null
      [] task = "raise" -> FailedWith(job_id)

\* C8 as stated: with max_concurrent = 1, for any two jobs A and B with
\* submit(A) before submit(B), B shows queued in every state where A shows
\* running, B turns running only once A is finished or failed, and both
\* eventually are terminal with their own result.
C8_Original ==
    /\ [](\A a, b \in Ids :
            max_concurrent = 1 /\ a # b /\ Before(a, b) /\ StatusIs(a, "running")
                => StatusIs(b, "queued"))
    /\ [][\A a, b \in Ids :
            /\ max_concurrent = 1 /\ a # b /\ Before(a, b)
            /\ StatusIs(b, "queued") /\ StatusIs(b, "running")'
            => Terminal(a)']_vars
    /\ \A i \in Ids, task \in Tasks :
            (max_concurrent = 1 /\ \E k \in DOMAIN workq : workq[k].id = i /\ workq[k].task = task)
                ~> DoneWith(i, task)

\* C8 amended: with max_concurrent = 1, for two jobs A and B each submitted
\* exactly once, submit(A) before submit(B), and while neither is finalized:
\* B shows queued in every state where A shows running, B turns running only
\* once A is finished or failed, and each of them eventually is terminal with
\* what its own task produced.
C8_Theorem ==
    /\ [](\A a, b \in Ids :
            /\ max_concurrent = 1 /\ a # b /\ Before(a, b)
            /\ nsubmit(a) = 1 /\ nsubmit(b) = 1
            /\ StatusIs(a, "running") /\ jobs[b] # None
            => StatusIs(b, "queued"))
    /\ [][\A a, b \in Ids :
            /\ max_concurrent = 1 /\ a # b /\ Before(a, b)
            /\ nsubmit(a) = 1 /\ nsubmit(b) = 1
            /\ StatusIs(b, "queued") /\ StatusIs(b, "running")' /\ jobs'[a] # None
            => Terminal(a)']_vars
    /\ \A i \in Ids, task \in Tasks :
            (max_concurrent = 1 /\ Pending(i, task)) ~> (DoneWith(i, task) \/ Dropped(i))

\* one thread: A, submitted once and first, is running while B, submitted
\* once, waits with status queued
C8_Witness ==
    \E a, b \in Ids :
        /\ max_concurrent = 1 /\ a # b /\ Before(a, b)
        /\ nsubmit(a) = 1 /\ nsubmit(b) = 1
        /\ StatusIs(a, "running") /\ StatusIs(b, "queued")
        /\ \E k \in DOMAIN workq : workq[k].id = b

\* C9: in Local mode at most max_concurrent tasks are being executed, at most
\* max_concurrent workers hold a work item and at most max_concurrent records
\* have status running.
C9_Theorem ==
    /\ Cardinality({w \in Workers : worker[w].pc = "call"}) <= max_concurrent
    /\ Cardinality({w \in Workers : worker[w].pc # "idle"}) <= max_concurrent
    /\ Cardinality({i \in Ids : jobs[i] # None /\ jobs[i].status = "running"}) <= max_concurrent

\* the pool is full (one thread, one task running) and a job waits
C9_Witness ==
    /\ max_concurrent = 1
    /\ \E w \in Workers : worker[w].pc = "call"
    /\ workq # <<>>

\* C10 as stated: for any max_concurrent, of two jobs submitted (once each)
\* while all threads were busy, submit(A) before submit(B), A turns from
\* queued to running no later than B.
C10_Original ==
    [][\A a, b \in Ids :
        /\ a # b /\ BusyBefore(a, b) /\ nsubmit(a) = 1 /\ nsubmit(b) = 1
        /\ StatusIs(b, "queued") /\ StatusIs(b, "running")'
        => ~StatusIs(a, "queued")']_vars

\* C10 amended: work items leave the queue in the order of their submit
\* calls (a free thread is handed the oldest waiting item), for any
\* max_concurrent; that A turns running no later than B, for two jobs
\* submitted once each while all threads were busy, holds for
\* max_concurrent = 1.
C10_Theorem ==
    /\ [][\A w \in Workers :
            worker[w].pc = "idle" /\ worker'[w].pc # "idle"
                => /\ worker'[w].n = workq[1].n
                   /\ \A k \in DOMAIN workq' : worker'[w].n < workq'[k].n]_vars
    /\ [][\A a, b \in Ids :
            /\ max_concurrent = 1
            /\ a # b /\ BusyBefore(a, b) /\ nsubmit(a) = 1 /\ nsubmit(b) = 1
            /\ StatusIs(b, "queued") /\ StatusIs(b, "running")'
            => ~StatusIs(a, "queued")']_vars

\* a thread has just been handed a work item submitted while all threads
\* were busy, and a later one, also submitted then, still waits
C10_Witness ==
    \E w \in Workers, k \in DOMAIN workq :
        /\ worker[w].pc = "set_running"
        /\ submitted[worker[w].n].busy /\ submitted[workq[k].n].busy
        /\ worker[w].id # workq[k].id
        /\ nsubmit(worker[w].id) = 1 /\ nsubmit(workq[k].id) = 1

\* ------------------------------------------------------------ C11: submit
\* C11 (Local mode): submit can be called and returns in every state, also
\* when all max_concurrent threads are busy and jobs already wait; it is not
\* rejected, it starts nothing and changes no record: the work item joins the
\* tail of the queue, and a job submitted for the first time shows queued.
C11_Theorem ==
    /\ [](\A t \in Callers, i \in Known, task \in Tasks :
            Local /\ thr[t].pc = "idle" /\ Len(submitted) < limits.submits
                => ENABLED submit(t, i, task))
    /\ [][Local /\ ret'.op = "submit" =>
            /\ ret'.val = "returned"
            /\ Len(workq') = Len(workq) + 1
            /\ SubSeq(workq', 1, Len(workq)) = workq
            /\ workq'[Len(workq')].id = ret'.id
            /\ UNCHANGED <<jobs, worker>>
            /\ nsubmit(ret'.id) = 0 /\ jobs[ret'.id] # None
                    => StatusIs(ret.id, "queued")']_vars

\* submit has just returned while every thread was busy and other jobs were
\* already waiting; the submitted job waits with status queued
C11_Witness ==
    /\ ret.op = "submit" /\ ret.val = "returned"
    /\ AllBusy /\ Len(workq) >= 2
    /\ workq[Len(workq)].id = ret.id
    /\ nsubmit(ret.id) = 1 /\ StatusIs(ret.id, "queued")

\* ------------------------------------------------- C12: one call per submit
\* the places where the work item of the n-th submit is: queue slots, workers
Waiting(n) == {k \in DOMAIN workq : workq[k].n = n}
Holding(n) == {w \in Workers : worker[w].pc # "idle" /\ worker[w].n = n}

\* the worker that holds the item has called the task
Invoked(n) ==
    \E w \in Holding(n) : worker[w].pc \in {"call", "set_finished", "set_error", "set_failed"}

\* how far the work item of the n-th submit is: 0 it waits, 1 a worker took
\* it, 2 the worker has called the task, 3 the worker is through with it
Phase(n) ==
    CASE Waiting(n) # {} -> 0
      [] Invoked(n) -> 2
      [] Holding(n) # {} -> 1
      [] OTHER -> 3

\* C12 (Local mode, fair pool, tasks end): the work item of every submit is
\* in one place only (a queue slot or a worker), it only moves forward from
\* waiting to taken to called to done, so the task is called at most once for
\* it, and an item that waits is eventually called.
C12_Theorem ==
    /\ [](\A n \in DOMAIN submitted :
            /\ Cardinality(Waiting(n)) + Cardinality(Holding(n)) <= 1
            /\ \A w \in Holding(n) : worker[w].id = submitted[n].id)
    /\ [][\A n \in DOMAIN submitted : Phase(n) <= Phase(n)']_vars
    /\ \A n \in 1..MaxSubmits : (n \in DOMAIN submitted /\ Phase(n) = 0) ~> Phase(n) >= 2

\* the task of the second submit is being called while the item of the first
\* submit is done
C12_Witness ==
    /\ Len(submitted) >= 2
    /\ Phase(1) = 3 /\ Phase(2) = 2

\* ----------------------------------------------------- C13..: the sweeper
\* the step is one of the cleanup thread
SweeperStep == thr'[Sweeper] # thr[Sweeper] \/ sweep' # sweep

\* the job's record or directory is not the same after the step
Touched(job_id) ==
    \/ get_job(job_id, TRUE)' # get_job(job_id, TRUE)
    \/ (job_id \in dirs') # (job_id \in dirs)

\* the record is there and older than the ttl at the time of the sweep
ExpiredAt(job_id, t) ==
    get_job(job_id, TRUE) # None /\ t - get_job(job_id, TRUE).created_ts > Ttl

\* C13 as stated: when cleanup_expired returns, every job that had
\* now - created_ts > ttl when it was called, whatever its status, has neither
\* record nor directory; and the steps of cleanup_expired change the record
\* or directory of no job but such a one (a job of age ttl or less keeps its
\* record, its fields and its directory).
C13_AllAndOnly ==
    [][/\ ret'.op = "cleanup_expired" =>
            \A e \in sweep.start :
                sweep.now - e[2] > Ttl => get_job(e[1], TRUE)' = None /\ e[1] \notin dirs'
       /\ SweeperStep =>
            \A i \in Ids : Touched(i) => ExpiredAt(i, sweep.now)]_vars

\* the cleanup_expired call under way (or starting with this step) found no
\* job with now - created_ts > ttl
NoneExpired ==
    IF thr[Sweeper].pc = "idle"
    THEN \A e \in sweep'.start : sweep'.now - e[2] <= Ttl
    ELSE \A e \in sweep.start : sweep.now - e[2] <= Ttl

\* C14: when no job has now - created_ts > ttl at the call, no step of
\* cleanup_expired changes a record, the set of ids, the index set or a
\* directory.
C14_Theorem ==
    [][SweeperStep /\ NoneExpired => UNCHANGED <<store, dirs>>]_vars

\* a cleanup_expired call that found jobs, none older than the ttl and one
\* of age exactly ttl, is about to return
C14_Witness ==
    /\ thr[Sweeper].pc = "sweeping" /\ sweep.todo = <<>>
    /\ sweep.start # {}
    /\ \A e \in sweep.start : sweep.now - e[2] <= Ttl
    /\ \E e \in sweep.start : sweep.now - e[2] = Ttl /\ get_job(e[1], TRUE) # None

\* C15 as stated: a sweep that started after a job's age exceeded the ttl
\* does not complete with the job's record still in the store.
C15_EvictedBySweep ==
    [][ret'.op = "cleanup_expired" =>
        \A i \in Ids :
            (\E e \in sweep.start : e[1] = i /\ sweep.now - e[2] > Ttl)
                => get_job(i, TRUE)' = None]_vars

\* a Distributed sweep is through its members and a job it was to evict
\* (older than the ttl at the call, in the index set) still has its record:
\* a store call of this sweep raised
FailedSweep ==
    /\ faults /\ ~Local
    /\ thr[Sweeper].pc = "sweeping" /\ sweep.todo = <<>>
    /\ \E e \in sweep.start :
        e[1] \in rset /\ sweep.now - e[2] > Ttl /\ get_job(e[1], TRUE) # None

\* C16 (store calls may raise, the cleanup thread is scheduled fairly): a
\* sweep in which a store call raised still comes to its end, the thread goes
\* back to sleep, and from its sleep it sweeps again: sweeps are started and
\* completed infinitely often.
C16_Theorem ==
    /\ FailedSweep ~> (thr[Sweeper].pc = "idle")
    /\ (thr[Sweeper].pc = "idle") ~> (thr[Sweeper].pc = "sweeping")
    /\ []<>(ret.op = "cleanup_expired")

\* a sweep in which a store call raised has come to its end
C16_Witness == FailedSweep

\* ------------------------------------------------------------ C17..: reads
IsRead(op) == op \in {"get_job", "get_public_status"}

\* a finalize_job of the job has removed its directory and is over
Finalized(job_id) ==
    /\ job_id \in Known /\ job_id \notin dirs
    /\ \A t \in Threads :
        thr[t].id = job_id => thr[t].pc \notin {"fin_rmtree", "fin_delete", "fin_srem"}

\* C17 as stated: get_job and get_public_status of an id that was never
\* created, or whose job was finalized or swept, return absent, raise nothing
\* and leave the store unchanged.
C17_AbsentWhenUnknown ==
    [][IsRead(ret'.op) /\ (ret'.id > next_id \/ Finalized(ret'.id))
        => ret'.val = None /\ UNCHANGED <<store, dirs>>]_vars

\* C18: get_public_status(id) is absent exactly when get_job(id) is, and
\* otherwise it has the four fields job_id, status, error and result and no
\* other (no job_dir, kind or timestamp), each with the value get_job(id)
\* shows.
C18_Theorem ==
    [][ret'.op = "get_public_status" =>
        LET job == get_job(ret'.id, TRUE)
            pub == ret'.val
        IN  /\ pub = None <=> job = None
            /\ pub # None =>
                /\ DOMAIN pub = {"job_id", "status", "error", "result"}
                /\ pub.job_id = job.id /\ pub.status = job.status
                /\ pub.error = job.error /\ pub.result = job.result]_vars

\* get_public_status has just shown a finished job with its result
C18_Witness ==
    /\ ret.op = "get_public_status" /\ ret.val # None
    /\ ret.val.job_id = ret.id
    /\ ret.val.status = "finished" /\ ret.val.result = returned(ret.id)

\* the store holds a record for the job
Stored(job_id) == IF Local THEN jobs[job_id] # None ELSE rhash[job_id] # EmptyHash

\* the status the store holds for the job
StoredStatus(job_id) ==
    IF Local THEN jobs[job_id].status ELSE hget(rhash[job_id], "status", Null)

\* the read shows what the store holds for the job: not absent, same status
ShowsRecord(val, job_id) == val # None /\ val.status = StoredStatus(job_id)

\* the read shows a job failed whose only task raised and whose worker is done
ShowsFailure(val, job_id) ==
    val # None /\ nsubmit(job_id) = 1 /\ NoWorkFor(job_id) /\ val.error = raised(job_id)
        => val.status = "failed"

\* C19 as stated: for a job whose record exists get_job and
\* get_public_status never return absent; they return the record, with
\* status failed for a job whose task raised.
C19_Original ==
    [][IsRead(ret'.op) /\ Stored(ret'.id) =>
        /\ ShowsRecord(ret'.val, ret'.id)
        /\ ShowsFailure(ret.val, ret.id)']_vars

\* C19 amended: in Local mode, and in Distributed mode when no call to the
\* store raises, get_job and get_public_status never return absent for a job
\* whose record exists, and show status failed for a job whose task raised;
\* in Distributed mode a read whose hgetall raises returns absent although
\* the record exists, and a read that returns a record shows the stored
\* status.
C19_Theorem ==
    [][IsRead(ret'.op) /\ Stored(ret'.id) =>
        IF Local \/ ~faults
        THEN /\ ShowsRecord(ret'.val, ret'.id)
             /\ ShowsFailure(ret.val, ret.id)'
        ELSE ret'.val = None \/ ShowsRecord(ret'.val, ret'.id)]_vars

\* a read has just shown status failed and the message for a job whose task
\* raised
C19_Witness ==
    /\ IsRead(ret.op) /\ ret.val # None
    /\ nsubmit(ret.id) = 1 /\ NoWorkFor(ret.id)
    /\ ret.val.status = "failed" /\ ret.val.error = raised(ret.id)

\* --------------------------------------------------- C20: a task that raises
\* a task of another job raises, is about to, or has raised
RaiseAround(job_id) ==
    \E j \in Ids \ {job_id} :
        Pending(j, "raise") \/ Executing(j, "raise") \/ StatusIs(j, "failed")

\* C20 (Local mode, fair pool, tasks end): a job whose task raises ends
\* failed with the message; the thread that ran the task becomes free again;
\* and every job that waits while another job's task raises, before or after
\* it, is still executed to its terminal state (unless finalized or submitted
\* again).
C20_Theorem ==
    /\ \A i \in Ids : Executing(i, "raise") ~> (FailedWith(i) \/ Dropped(i))
    /\ \A w \in Workers :
            (worker[w].pc # "idle" /\ worker[w].task = "raise") ~> (worker[w].pc = "idle")
    /\ \A i \in Ids, task \in Tasks :
            (Pending(i, task) /\ RaiseAround(i)) ~> (DoneWith(i, task) \/ Dropped(i))

\* one job has failed with its task's message, a job submitted after it has
\* finished with its result, and every thread is free
C20_Witness ==
    \E i, j \in Ids :
        /\ i # j /\ Before(i, j) /\ nsubmit(i) = 1 /\ nsubmit(j) = 1
        /\ FailedWith(i) /\ FinishedWith(j)
        /\ \A w \in Workers : worker[w].pc = "idle"

\* the worker that held a work item of a raising task has left the function
\* in this step
LeavesRaised(w) ==
    /\ worker[w].pc # "idle"
    /\ worker[w].task = "raise"
    /\ worker'[w].pc = "idle"

\* the hash of the job holds the failure of its task
HashFailedWith(h, job_id) ==
    hget(h, "status", Null) = "failed" /\ hget(h, "error", Null) = raised(job_id)

\* the store answers, the job is not finalized meanwhile, and the wrapper
\* whose task raised ends in this step
RaisedAndThrough(w) == ~Local /\ ~faults /\ LeavesRaised(w)

\* when the task has raised and run_job_wrapper is through, the job's hash
\* holds status failed and the task's message as error
FailureRecorded ==
    [][\A w \in Workers : RaisedAndThrough(w) =>
            HashFailedWith(rhash'[worker[w].id], worker[w].id)]_vars

\* C21 (Distributed mode, the store answers, no finalize_job): when the task
\* has raised, the failure is in the job's hash (status failed, error set) and
\* run_job_wrapper returns to the consumer that called it: no exception
\* leaves the wrapper.
C21_NoEscape ==
    [][\A w \in Workers : RaisedAndThrough(w) =>
            /\ HashFailedWith(rhash'[worker[w].id], worker[w].id)
            /\ ret'.op = "run_job_wrapper"
            /\ ret'.val = "returned"]_vars

\* ------------------------------------------- C22: unresolvable references
\* the only work item of the job waits, and its reference does not resolve
PendingUnresolved(job_id) ==
    /\ nsubmit(job_id) = 1
    /\ \E k \in DOMAIN workq : workq[k].id = job_id /\ workq[k].task \in Unresolvable

\* get_job shows the job failed with an error, no result
FailedImport(job_id) ==
    /\ jobs[job_id] # None
    /\ jobs[job_id].status = "failed"
    /\ jobs[job_id].error \in {"M3", "M4", "M5"}
    /\ jobs[job_id].result = Null

\* the submit of this step has queued a reference that does not resolve
QueuedUnresolved ==
    /\ Len(workq') = Len(workq) + 1
    /\ workq'[Len(workq')].task \in Unresolvable

\* C22 (Local mode, fair pool): a job submitted once with a reference that
\* does not resolve, and not finalized, eventually shows status failed with a
\* non-null error; no worker ever calls a task for such a work item; the
\* submit that queued it returns normally and so does _run_job; and every
\* work item that waits, whatever was queued before it, is eventually taken
\* and dealt with by a worker.
C22_Theorem ==
    /\ \A i \in Ids : PendingUnresolved(i) ~> (FailedImport(i) \/ Dropped(i))
    /\ [](\A w \in Workers :
            worker[w].pc # "idle" /\ worker[w].task \in Unresolvable
                => worker[w].pc \in {"set_running", "import_error", "set_failed"})
    /\ [][/\ QueuedUnresolved => ret'.op = "submit" /\ ret'.val = "returned"
          /\ \A w \in Workers :
                worker[w].pc # "idle" /\ worker[w].task \in Unresolvable /\ worker'[w].pc = "idle"
                    => ret'.op = "_run_job" /\ ret'.val = "returned"]_vars
    /\ \A n \in 1..MaxSubmits :
            (n \in DOMAIN submitted /\ Waiting(n) # {}) ~> (Waiting(n) = {} /\ Holding(n) = {})

\* the only worker of the pool has failed a job whose reference did not
\* resolve and now runs the task of the next work item
C22_Witness ==
    /\ max_concurrent = 1
    /\ Len(submitted) = 2
    /\ FailedImport(submitted[1].id)
    /\ nsubmit(submitted[1].id) = 1
    /\ worker[1].n = 2 /\ worker[1].pc = "call"

\* ------------------------------------------------- C23: fallback to Local
\* the URL is set, and the broker behind it is misconfigured or unreachable
BrokerUnusable == redis_url \in {"bad_url", "down"}

\* what this step shows is what a JobQueue in Local mode shows: when
\* create_job returns, the record is in the local store and get_job returns
\* it with status queued; submit returns normally and its work item is queued
\* for the local pool
AsInLocalMode ==
    /\ ret'.op = "create_job" =>
            \A i \in Ids, ok \in Outcomes : ret'.id = i =>
                /\ jobs'[i] # None
                /\ get_job(i, ok)' # None
                /\ get_job(i, ok)'.status = "queued"
    /\ ret'.op = "submit" =>
            /\ ret'.val = "returned"
            /\ Local
            /\ workq' # <<>> /\ workq'[Len(workq')].id = ret'.id

\* C23 as stated: with a broker URL that is misconfigured or whose broker is
\* unreachable, the JobQueue behaves as in Local mode: create_job registers
\* the record in the local store where get_job finds it queued, and submit
\* runs the task on the local pool.
C23_FallsBackToLocal == [][BrokerUnusable => AsInLocalMode]_vars

\* the same for a URL that does not parse only
FallsBackOnBadUrl == [][redis_url = "bad_url" => AsInLocalMode]_vars

\* ------------------------------------------- C24: store errors stay inside
\* the operations of the public interface
PublicOps ==
    {"create_job", "submit", "get_job", "get_public_status", "finalize_job", "cleanup_expired"}

\* the call that ended in this step ended with an exception: of the public
\* operations only submit has a store call outside any handler
RaisedToCaller == ret'.op = "submit" /\ ret'.val = "raised"

\* C24 as stated (Distributed mode, store calls may raise): no call of
\* create_job, submit, get_job, get_public_status, finalize_job or
\* cleanup_expired ends with an exception at its caller.
C24_NoCallRaises ==
    [][~Local /\ faults /\ ret'.op \in PublicOps => ~RaisedToCaller]_vars

\* ------------------------------------------- C25: directory and record
\* no call of a request thread or of the cleanup thread is under way
Quiet == \A t \in Threads : thr[t].pc = "idle"

\* the job's directory is on disk exactly when the store holds its record
DirIffRecord(job_id) == (job_id \in dirs) <=> Stored(job_id)

\* the same in every state, also those in the middle of a call
DirIffRecordAlways == \A i \in Known : DirIffRecord(i)

\* C25 as stated, for the states between the calls of the public interface
\* (store calls may raise): the directory of every job create_job has handed
\* out exists if and only if the job's record is in the store.
C25_DirIffRecord == Quiet => \A i \in Known : DirIffRecord(i)

\* ------------------------------------------- C26: one worker per job id
\* the workers that hold a work item of the job
Owners(job_id) == {w \in Workers : worker[w].pc # "idle" /\ worker[w].id = job_id}

\* C26 as stated: over any sequence of create_job, submit (also repeated for
\* one id), worker steps and finalize_job, at most one worker at a time holds
\* a work item of a given job id, that is executes its task and writes its
\* record.
C26_OneWorkerPerJob == \A i \in Ids : Cardinality(Owners(i)) <= 1

\* ------------------------------------------- C27: ids and directories
\* the thread is inside create_job
Creating(t) == thr[t].pc \in {"create_store", "create_sadd"}

\* the thread enters create_job in this step: it draws the id and makes the
\* directory
Draws(t) == thr[t].pc = "idle" /\ thr'[t].pc = "create_store"

\* the step is one of the thread's create_job
StepOfCreate(t) == Draws(t) \/ (Creating(t) /\ thr'[t] # thr[t])

\* C27 (both modes, two request threads, store calls may raise): the id a
\* create_job draws was never handed out before, is not the id of a record in
\* the store and is not the id of a create_job under way in another thread;
\* the same for its directory; and no step of a create_job changes the
\* record of any other id.
C27_Theorem ==
    /\ [][\A t \in Callers : Draws(t) =>
            /\ thr'[t].id \notin Known
            /\ \A i \in Ids : Stored(i) => thr'[t].id # i
            /\ thr'[t].dir \notin dirs
            /\ \A u \in Callers \ {t} : Creating(u) =>
                    thr[u].id # thr'[t].id /\ thr[u].dir # thr'[t].dir]_vars
    /\ [][\A t \in Callers : StepOfCreate(t) =>
            \A i \in Ids : i # (IF Creating(t) THEN thr[t].id ELSE thr'[t].id) =>
                jobs'[i] = jobs[i] /\ rhash'[i] = rhash[i]]_vars
    /\ [][ret'.op = "create_job" =>
            \A t \in Callers : ret'.t = t => ret'.id = thr[t].id /\ ret'.val = thr[t].dir]_vars

\* a create_job returns while another one is under way and a record of an
\* earlier one is in the store
C27_Witness ==
    /\ ret.op = "create_job"
    /\ \E u \in Callers : Creating(u) /\ thr[u].id # ret.id
    /\ \E i \in Ids : i # ret.id /\ Stored(i) /\ ~(\E u \in Callers : Creating(u) /\ thr[u].id = i)

\* ------------------------------------------- C28: status and updated_ts
\* the status of the job's record is not the same after the step
StatusChanges(job_id) ==
    jobs[job_id] # None /\ jobs'[job_id] # None /\ jobs'[job_id].status # jobs[job_id].status

\* C28 (Local mode, the clock runs, a reader between any two steps of the
\* workers): a record whose status changes gets the time of that write as
\* its updated_ts in the same step, and every get_job returns the record as
\* the store holds it, so no read shows a new status with the updated_ts of
\* an earlier write.
C28_Theorem ==
    /\ [][\A i \in Ids : StatusChanges(i) => jobs'[i].updated_ts = now]_vars
    /\ [][ret'.op = "get_job" => \A i \in Ids : ret'.id = i => ret'.val = jobs[i]]_vars

\* a read shows a job running whose status was written after the clock had
\* moved on from the job's creation
C28_Witness ==
    /\ ret.op = "get_job"
    /\ ret.val # None
    /\ ret.val.status = "running"
    /\ ret.val.updated_ts > ret.val.created_ts
    /\ \E w \in Workers : worker[w].pc = "call" /\ worker[w].id = ret.id

\* ------------------------------------------- C29: removed stays removed
\* create_job has handed the id out and self._jobs has no record for it: in
\* Local mode the record was removed
Removed(job_id) == job_id \in Known /\ jobs[job_id] = None

\* worker w, holding a work item, takes a step
WorkerStep(w) == worker[w].pc # "idle" /\ worker'[w] # worker[w]

\* C29 (Local mode, finalize_job of a request thread and of the cleanup
\* thread): once the record of a job is removed it stays removed, whatever the
\* job's status was and whatever its worker does later; a step of a worker
\* whose job is removed changes no record at all; every get_job of a removed
\* job returns absent.
C29_Theorem ==
    /\ [][\A i \in Ids : Removed(i) => jobs'[i] = None]_vars
    /\ [][\A w \in Workers : WorkerStep(w) /\ Removed(worker[w].id) => jobs' = jobs]_vars
    /\ [][ret'.op = "get_job" => \A i \in Ids : ret'.id = i /\ Removed(i) => ret'.val = None]_vars

\* a read returns absent for a removed job whose worker is between setting
\* the result and setting the terminal status
C29_Witness ==
    /\ ret.op = "get_job"
    /\ Removed(ret.id)
    /\ ret.val = None
    /\ \E w \in Workers : worker[w].id = ret.id /\ worker[w].pc = "set_finished"

\* ------------------------------------------- C30: finalized stays absent
\* every submit of the job came while the store held its record
SubmittedLive(job_id) ==
    \A n \in DOMAIN submitted : submitted[n].id = job_id => submitted[n].live

\* C30 as stated (Distributed mode, the store answers every call): once a
\* finalize_job of a job is over, whatever the job's status was, get_job of
\* its id returns absent in every later state, also after the worker of a
\* work item submitted before the finalize_job has started or gone on and
\* written status, result or error.
C30_AbsentAfterFinalize ==
    \A i \in Ids : ~Local /\ Finalized(i) /\ SubmittedLive(i) => get_job(i, TRUE) = None

\* ------------------------------------------- C31: the two workers
\* what a poller sees of the job after the worker's step, told from what it
\* saw before, where the worker stood and what the task does: status running;
\* then the result and status finished, or only status finished, or the
\* error and status failed
SeenAfter(view, pc, task, job_id) ==
    CASE pc = "set_running" -> [view EXCEPT !.status = "running"]
      [] pc = "call" /\ task = "return" -> [view EXCEPT !.result = returned(job_id)]
      [] pc = "call" /\ task = "none" -> [view EXCEPT !.status = "finished"]
      [] pc = "call" /\ task = "raise" -> [view EXCEPT !.error = raised(job_id)]
      [] pc = "call" /\ task = "raise_blank" -> [view EXCEPT !.error = ""]
      [] pc = "set_finished" -> [view EXCEPT !.status = "finished"]
      [] pc = "set_failed" -> [view EXCEPT !.status = "failed"]

\* the step of worker w shows the poller the same in either mode
SameInBothModes(w) ==
    \A i \in Ids : worker[w].id = i =>
        get_public_status(i, TRUE)' =
            SeenAfter(get_public_status(i, TRUE), worker[w].pc, worker[w].task, i)

WorkerFields(job_id) ==
    LET job == get_job(job_id, TRUE) IN
    [status |-> job.status, result |-> job.result, error |-> job.error,
     updated_ts |-> job.updated_ts]

\* the record is there before and after the step, and one of the fields a
\* worker writes is not the same
FieldsChange(job_id) ==
    /\ get_job(job_id, TRUE) # None
    /\ get_job(job_id, TRUE)' # None
    /\ WorkerFields(job_id)' # WorkerFields(job_id)

\* C32 (both modes, the store answers; create_job, submit, finalize_job,
\* reads and the workers): a get_job or get_public_status changes no record,
\* no index, no id and no directory; and when status, result, error or
\* updated_ts of a record change, the step is one of a worker that holds a
\* work item of that job.
C32_Theorem ==
    /\ [][IsRead(ret'.op) => UNCHANGED <<store, dirs, next_id, pool>>]_vars
    /\ [][\A i \in Ids : FieldsChange(i) =>
            \E w \in Workers : WorkerStep(w) /\ worker[w].id = i]_vars

\* a poll has just returned a running job while its worker is about to write
\* the result
C32_Witness ==
    /\ IsRead(ret.op)
    /\ ret.val # None
    /\ ret.val.status = "running"
    /\ \E w \in Workers : worker[w].id = ret.id /\ worker[w].pc = "call" /\ worker[w].task = "return"

\* ------------------------------------------- C33: timestamps
\* the record is there before and after the step
Stays(job_id) == get_job(job_id, TRUE) # None /\ get_job(job_id, TRUE)' # None

\* created_ts of a record never changes, updated_ts never decreases
StampsMonotonic(job_id) ==
    Stays(job_id) =>
        /\ get_job(job_id, TRUE)'.created_ts = get_job(job_id, TRUE).created_ts
        /\ get_job(job_id, TRUE)'.updated_ts >= get_job(job_id, TRUE).updated_ts

\* the step of worker w leaves the time its write has read as the job's
\* updated_ts: the time of the step in Local mode, a time between the
\* consumer's previous step and this one in Distributed mode
StampedNow(w) ==
    \A i \in Ids : worker[w].id = i /\ Stays(i) =>
        get_job(i, TRUE)'.updated_ts \in (IF Local THEN {now} ELSE worker[w].since..now)

\* created_ts <= updated_ts in every record
CreatedBeforeUpdated ==
    \A i \in Ids : get_job(i, TRUE) # None =>
        get_job(i, TRUE).created_ts <= get_job(i, TRUE).updated_ts

\* C33 as stated (both modes, the clock only moves forward, the store answers,
\* no finalize_job): in every record created_ts <= updated_ts, created_ts
\* never changes, updated_ts never decreases, and every write of a worker
\* leaves the time of that write as updated_ts.
C33_Timestamps ==
    /\ [](CreatedBeforeUpdated)
    /\ [][\A i \in Ids : StampsMonotonic(i)]_vars
    /\ [][\A w \in Workers : WorkerStep(w) => StampedNow(w)]_vars

\* the same for Local mode only
TimestampsLocal ==
    /\ [](CreatedBeforeUpdated)
    /\ [][Local => \A i \in Ids : StampsMonotonic(i)]_vars
    /\ [][Local => \A w \in Workers : WorkerStep(w) => StampedNow(w)]_vars

\* the same in Distributed mode for jobs submitted once
TimestampsOneSubmit ==
    [][\A i \in Ids : ~Local /\ nsubmit(i)' <= 1 => StampsMonotonic(i)]_vars

\* ------------------------------------------- C34: one job at a time
\* the stored record, the index entry or the directory of the job is not the
\* same after the step
Changed(job_id) ==
    \/ jobs'[job_id] # jobs[job_id]
    \/ rhash'[job_id] # rhash[job_id]
    \/ (job_id \in rset') # (job_id \in rset)
    \/ (job_id \in dirs') # (job_id \in dirs)

\* the thread is inside finalize_job, past the read of the record
Finalizing(t) == thr[t].pc \in {"fin_rmtree", "fin_delete", "fin_srem"}

\* C34 (both modes, the clock, the cleanup thread, the workers; the store
\* answers): a step of a worker changes record, index entry and directory of
\* no job but the one whose work item it holds; a step of finalize_job(X),
\* called by a request thread or by cleanup_expired, changes those of no job
\* but X; the other steps of cleanup_expired change none.
C34_Theorem ==
    /\ [][\A w \in Workers : WorkerStep(w) =>
            \A i \in Ids : i # worker[w].id => ~Changed(i)]_vars
    /\ [][\A t \in Threads : Finalizing(t) /\ thr'[t] # thr[t] =>
            \A i \in Ids : i # thr[t].id => ~Changed(i)]_vars
    /\ [][SweeperStep /\ ~Finalizing(Sweeper) => \A i \in Ids : ~Changed(i)]_vars

\* the cleanup thread has removed the directory of one job and is about to
\* remove its record while a worker runs the task of another job
C34_Witness ==
    /\ thr[Sweeper].pc = "fin_delete"
    /\ \E w \in Workers :
        /\ worker[w].pc = "call"
        /\ worker[w].id # thr[Sweeper].id
        /\ Stored(worker[w].id)
        /\ worker[w].id \in dirs

\* ------------------------------------------- C35: index set and records
\* a create_job or finalize_job call is in progress on the thread
InCreateOrFinalize(t) ==
    thr[t].pc \in {"create_store", "create_sadd", "fin_rmtree", "fin_delete", "fin_srem"}

\* every stored hash is listed in the index set and every member of the index
\* set has a stored hash
IndexAgrees == \A i \in Ids : rhash[i] # EmptyHash <=> i \in rset

\* C35 (one request thread, calls to the store may raise): in Distributed
\* mode, whenever no create_job or finalize_job call is in progress, a job has
\* a stored record exactly when it is a member of the index set.
C35_IndexAgrees ==
    ~Local /\ (\A t \in Threads : ~InCreateOrFinalize(t)) => IndexAgrees

\* ------------------------------------------- C36: results through JSON
\* the executor's consumer ends its work on a job that was submitted once,
\* with a task that returned this value
WorksOff(w, v) ==
    /\ WorkerStep(w)
    /\ worker'[w].pc = "idle"
    /\ worker[w].task = v
    /\ nsubmit(worker[w].id) = 1

\* after the step get_job hands out the job as finished with this result
ReadsFinishedWith(job_id, result) ==
    /\ get_job(job_id, TRUE)' # None
    /\ get_job(job_id, TRUE)'.status = "finished"
    /\ get_job(job_id, TRUE)'.result = result

\* the values json.dumps writes without raising
Dumpable == {v \in PyValues : json_dumps(v) \notin {TypeError, ValueError}}

\* the values made of JSON types only: strings, numbers, booleans, lists and
\* dicts with string keys
JsonTyped == Falsy

\* the values json.dumps rejects with TypeError
NoJsonType == {v \in PyValues : json_dumps(v) = TypeError}

\* the consumer's last step leaves the job of each of these values finished,
\* with what Read makes of the value as the result
ComesBack(Values, Read(_)) ==
    \A w \in Workers, i \in Ids, v \in Values :
        worker[w].id = i /\ WorksOff(w, v) => ReadsFinishedWith(i, Read(v))

Same(v) == v
AsPlaceholder(v) == Placeholder

\* C36 as stated (Distributed mode, one consumer): once the job of a task that
\* returned a value json.dumps can write is worked off, get_job gives status
\* finished and that value as the result; for a value json.dumps cannot write
\* it gives status finished and the placeholder.
C36_Original ==
    [][/\ \A w \in Workers, i \in Ids :
            worker[w].id = i /\ WorksOff(w, "return") => ReadsFinishedWith(i, returned(i))
       /\ ComesBack(Dumpable, Same)
       /\ ComesBack(PyValues \ Dumpable, AsPlaceholder)]_vars

\* C36 (Distributed mode, one consumer): once the job of a task that returned
\* a value made of JSON types only (the falsy values 0, False, '' and []
\* among them) is worked off, get_job gives status finished and that value as
\* the result; for a value json.dumps rejects with TypeError it gives status
\* finished and the placeholder.
C36_Theorem ==
    [][/\ \A w \in Workers, i \in Ids :
            worker[w].id = i /\ WorksOff(w, "return") => ReadsFinishedWith(i, returned(i))
       /\ ComesBack(JsonTyped, Same)
       /\ ComesBack(NoJsonType, AsPlaceholder)]_vars

\* a reader has been handed the finished job of a task that returned an empty
\* string, with the empty string as its result, while the job of a task that
\* returned a set is stored as finished with the placeholder
C36_Witness ==
    /\ ret.op = "get_job"
    /\ nsubmit(ret.id) = 1
    /\ ret.val # None
    /\ ret.val.status = "finished"
    /\ ret.val.result = "''"
    /\ \E i \in Ids :
        /\ nsubmit(i) = 1
        /\ get_job(i, TRUE) # None
        /\ get_job(i, TRUE).status = "finished"
        /\ get_job(i, TRUE).result = Placeholder

\* a tuple comes back as a list
AsList(v) == "[1, 2]"
TupleComesBackAsList == [][ComesBack({"(1, 2)"}, AsList)]_vars

\* a list that contains itself leaves the job failed, without a result
CircularFails ==
    [][\A w \in Workers, i \in Ids :
        worker[w].id = i /\ WorksOff(w, "[[...]]") =>
            /\ get_job(i, TRUE)'.status = "failed"
            /\ get_job(i, TRUE)'.error = circular_error
            /\ get_job(i, TRUE)'.result = Null]_vars

\* ------------------------------------------- C37: result downloads
\* the step is a download request for the job that is answered with the file
Serves(job_id) == ret'.op = "download" /\ ret'.id = job_id /\ ret'.val.code = 200

\* the step is a download request for the job that is answered with 404
Refuses(job_id) == ret'.op = "download" /\ ret'.id = job_id /\ ret'.val.code = 404

\* the response of a served download of the job has just been closed: the
\* finalize_job that call_on_close started has returned
Closed(job_id) == ret.op = "finalize_job" /\ ret.id = job_id

\* the answer just given is not a file of the job, nor a status other than
\* missing
ReportsMissing(job_id) ==
    /\ ret.op = "download" /\ ret.id = job_id => ret.val.code = 404
    /\ ret.op = "job_status" /\ ret.id = job_id => ret.val.status = "missing"

\* a file is sent only for a stored record with status finished
ServedOnlyFinished ==
    [][\A i \in Ids : Serves(i) => Stored(i) /\ get_job(i, TRUE).status = "finished"]_vars

\* a refused download changes nothing
RefusedChangesNothing ==
    [][\A i \in Ids : Refuses(i) => UNCHANGED <<store, dirs, pool, thr>>]_vars

\* a finalize_job has removed the directory of the job: directories are not
\* created again
DirRemoved(job_id) == job_id \in Known /\ job_id \notin dirs

\* when the response of a served download has been closed the job is
\* finalized: neither its record nor its directory is left
FinalizedWhenClosed ==
    \A i \in Ids : Closed(i) => get_job(i, TRUE) = None /\ i \notin dirs

\* a download or status request for a job that a finalize_job has been
\* through is answered as missing
MissingOnceRemoved == \A i \in Ids : DirRemoved(i) => ReportsMissing(i)

\* C37 (both modes, one request thread, calls to the store may raise): a
\* download is served only for a stored record with status finished; every
\* other download request is answered 404 and leaves the job as it was; when
\* the response of a served download has been closed the job is finalized,
\* and every later download or status request for that id is answered as
\* missing.
C37_Downloads ==
    /\ ServedOnlyFinished
    /\ RefusedChangesNothing
    /\ []FinalizedWhenClosed
    /\ []MissingOnceRemoved

\* the store answers every call
StoreAnswers == ~faults

\* no job is submitted twice
SubmittedOnce == \A i \in Ids : nsubmit(i) <= 1

\* the last two parts when the store answers and no job is submitted twice
FinalizedOnce ==
    StoreAnswers /\ SubmittedOnce => FinalizedWhenClosed /\ MissingOnceRemoved

\* the last two parts in Local mode
FinalizedLocal == Local => FinalizedWhenClosed /\ MissingOnceRemoved

\* ------------------------------------------- C38: the state lock
\* the thread waits at a "with self._lock" for a lock another thread holds
Blocked(t) == Local /\ AtLock(t) /\ thr[t].pc # "idle" /\ lock \notin {Free, t}

\* the executor thread waits for a lock another thread holds
BlockedWorker(w) ==
    Local /\ w <= PoolSize /\ worker[w].pc # "idle" /\ lock \notin {Free, WorkerThread(w)}

\* whoever holds the lock can leave its block: it waits for nothing
HolderCanLeave == lock # Free => ENABLED Leave

\* whoever holds the lock stands at the block it entered, not at a later
\* part of its operation or in another operation
HolderInBlock ==
    /\ \A t \in Threads : lock = t => AtLock(t)
    /\ \A w \in Workers : lock = WorkerThread(w) => worker[w].pc # "idle"

\* a lock that is held is released
HeldIsReleased == (lock # Free) ~> (lock = Free)

\* C38 (Local mode; request thread, executor thread and cleanup thread take
\* the lock step by step; a thread inside a block runs on): whoever holds the
\* lock can finish its block without waiting for the lock or for another
\* thread, it holds the lock only inside the block it entered, and every lock
\* that is held is released, so no thread waits at the lock forever because
\* of a thread that never releases it.
C38_Theorem == []HolderCanLeave /\ []HolderInBlock /\ HeldIsReleased

\* the executor thread is inside the block of a _set_* call while the cleanup
\* thread waits to pop an expired job and the request thread waits to store a
\* new record
C38_Witness ==
    /\ \E w \in Workers : lock = WorkerThread(w) /\ worker[w].pc # "idle"
    /\ thr[Sweeper].pc = "fin_delete" /\ Blocked(Sweeper)
    /\ thr["c1"].pc = "create_store" /\ Blocked("c1")


====
